---- MODULE Spec2Model ----
(***************************************************************************)
(* Model of the cfncli "dev cleanup-env" workflow                          *)
(* (src/cfncli/cli/cleanup_environment.py, src/cfncli/cli/cli.py).         *)
(*                                                                         *)
(* Strings are sequences of one-character strings, so Python's `in` and    *)
(* `startswith` are computed on them.  The provider (AWS) is the           *)
(* environment: `world` is what its listing APIs return, and the result    *)
(* of every mutating call is a nondeterministic choice.                    *)
(***************************************************************************)
EXTENDS Integers, Sequences, FiniteSets, TLC

VARIABLES
    world,                \* provider listings, per service
    substrings,           \* env_list / substrings argument
    no_confirm,           \* --no-confirm flag
    pc,                   \* position inside cleanup_env
    resources,            \* cleanup_env: resources (managed inventory)
    unmanaged_resources,  \* cleanup_env: unmanaged_resources
    rtype,                \* resource type of the loop being executed
    idx,                  \* index of the next name in that loop
    event,                \* the prompt or call made by the last step
    raised,               \* exception propagating out of cleanup_env
    exit,                 \* outcome of the cleanup-env command
    called,               \* functions that have made a provider call so far
    deleteOrder,          \* stack names delete_stack was called for, in order
    fn,                   \* gatherer called directly (gatherer specifications)
    ret                   \* its return value

vars == <<world, substrings, no_confirm, pc, resources, unmanaged_resources,
          rtype, idx, event, raised, exit, called, deleteOrder, fn, ret>>

runVars == <<no_confirm, pc, resources, unmanaged_resources, rtype, idx,
             event, raised, exit, called, deleteOrder>>

----------------------------------------------------------------------------
(* Bounds *)

MaxListed == 3      \* resources listed per service
MaxSubs == 2        \* substrings in env_list
MaxPageSize == 2    \* page size of a paginated listing
MaxTime == 2        \* creation times range over 1..MaxTime
MaxStacks == 2      \* stacks listed when status and parent vary freely
RunListed == 2      \* matching resources of a populated service in a run

----------------------------------------------------------------------------
(* Sequences and strings *)

Range(s) == {s[i] : i \in 1..Len(s)}

NoDup(s) == \A i, j \in 1..Len(s) : i # j => s[i] # s[j]

\* all sequences over S of length at most n
SeqsUpTo(S, n) == UNION {[1..k -> S] : k \in 0..n}

RECURSIVE Flatten(_)
Flatten(pages) ==
    IF pages = <<>> THEN <<>> ELSE Head(pages) \o Flatten(Tail(pages))

\* the paginator: the listing cut into pages of at most n items
RECURSIVE Paginate(_, _)
Paginate(items, n) ==
    IF Len(items) = 0 THEN <<>>
    ELSE IF Len(items) <= n THEN <<items>>
    ELSE <<SubSeq(items, 1, n)>> \o Paginate(SubSeq(items, n + 1, Len(items)), n)

\* Python: sub in s
In(sub, s) ==
    \E i \in 0..(Len(s) - Len(sub)) : SubSeq(s, i + 1, i + Len(sub)) = sub

\* Python: s.startswith(prefix)
startswith(s, prefix) ==
    /\ Len(prefix) <= Len(s)
    /\ SubSeq(s, 1, Len(prefix)) = prefix

\* Python: any(sub in name for sub in substrings)
AnySubIn(subs, name) == \E i \in 1..Len(subs) : In(subs[i], name)

----------------------------------------------------------------------------
(* Gatherers.  The second argument is what the service lists in the region. *)

gather_s3_buckets(subs, buckets) ==
    SelectSeq(buckets, LAMBDA name : AnySubIn(subs, name))

gather_ddb_tables(subs, pages) ==
    SelectSeq(Flatten(pages), LAMBDA name : AnySubIn(subs, name))

gather_ecr_repositories(subs, pages) ==
    SelectSeq(Flatten(pages), LAMBDA name : AnySubIn(subs, name))

gather_log_groups_prefix(subs, pages) ==
    SelectSeq(Flatten(pages),
              LAMBDA name : \E i \in 1..Len(subs) : startswith(name, subs[i]))

gather_log_groups(subs, pages) ==
    SelectSeq(Flatten(pages), LAMBDA name : AnySubIn(subs, name))

\* the inner loop of gather_ssm_params: append once at the first match, break
RECURSIVE SsmParamLoop(_, _, _)
SsmParamLoop(name, subs, i) ==
    IF i > Len(subs) THEN <<>>
    ELSE IF startswith(name, <<"/">> \o subs[i] \o <<"/">>) THEN <<name>>
    ELSE SsmParamLoop(name, subs, i + 1)

RECURSIVE SsmItems(_, _)
SsmItems(items, subs) ==
    IF items = <<>> THEN <<>>
    ELSE SsmParamLoop(Head(items), subs, 1) \o SsmItems(Tail(items), subs)

gather_ssm_params(subs, pages) == SsmItems(Flatten(pages), subs)

\* Python: sorted(infos, key=lambda x: x[1], reverse=True); the sort is
\* stable, so infos with equal keys keep their order
RECURSIVE InsertDesc(_, _)
InsertDesc(sorted, x) ==
    IF sorted = <<>> THEN <<x>>
    ELSE IF Head(sorted)[2] >= x[2]
         THEN <<Head(sorted)>> \o InsertDesc(Tail(sorted), x)
         ELSE <<x>> \o sorted

RECURSIVE SortedAsc(_)
SortedAsc(infos) ==
    IF infos = <<>> THEN <<>>
    ELSE LET rest == SortedAsc(Tail(infos))
             x == Head(infos)
         IN  SelectSeq(rest, LAMBDA y : y[2] < x[2]) \o <<x>>
             \o SelectSeq(rest, LAMBDA y : y[2] >= x[2])

RECURSIVE SortedDesc(_)
SortedDesc(infos) ==
    IF infos = <<>> THEN <<>>
    ELSE InsertDesc(SortedDesc(SubSeq(infos, 1, Len(infos) - 1)),
                    infos[Len(infos)])

DELETE_COMPLETE == <<"DELETE", "COMPLETE">>

StackSelectedAnyDelete(subs, stack) ==
    /\ ~In(<<"DELETE">>, stack.StackStatus)
    /\ "ParentId" \notin DOMAIN stack
    /\ AnySubIn(subs, stack.StackName)

\* lines 62-66: the test a listed stack passes to be gathered
StackSelected(subs, stack) ==
    /\ ~In(DELETE_COMPLETE, stack.StackStatus)
    /\ "ParentId" \notin DOMAIN stack
    /\ AnySubIn(subs, stack.StackName)

stack_infos(subs, pages) ==
    LET kept == SelectSeq(Flatten(pages), LAMBDA stack : StackSelected(subs, stack))
    IN  [i \in 1..Len(kept) |-> <<kept[i].StackName, kept[i].CreationTime>>]

gather_cloudformation_stacks(subs, pages) ==
    LET sorted_stack_infos == SortedDesc(stack_infos(subs, pages))
    IN  [i \in 1..Len(sorted_stack_infos) |-> sorted_stack_infos[i][1]]

LambdaSelectedAnyVpcConfig(subs, function) ==
    /\ AnySubIn(subs, function.FunctionName)
    /\ "VpcConfig" \in DOMAIN function

\* lines 159-163: the test a listed function passes to be gathered
LambdaSelected(subs, function) ==
    /\ AnySubIn(subs, function.FunctionName)
    /\ "VpcConfig" \in DOMAIN function
    /\ "VpcId" \in DOMAIN function.VpcConfig
    /\ function.VpcConfig.VpcId # <<>>

gather_vpc_lambdas(subs, pages) ==
    LET kept == SelectSeq(Flatten(pages), LAMBDA f : LambdaSelected(subs, f))
    IN  [i \in 1..Len(kept) |-> kept[i].FunctionName]

----------------------------------------------------------------------------
(* Input universes *)

\* names of buckets, tables, repositories and log groups
PlainNames == { <<"a">>, <<"b", "a">>, <<"a", "b">>, <<"b">>, <<"c">> }

\* names of SSM parameters
SsmNames == { <<"/", "a", "/", "x">>, <<"/", "a", "b", "/">>, <<"/", "a">>,
              <<"x", "/", "a", "/">>, <<"/", "/", "a">> }

SubUniverse == { <<>>, <<"a">>, <<"a", "b">>, <<"b">> }

SubstringLists == SeqsUpTo(SubUniverse, MaxSubs)

Listings(S) == {l \in SeqsUpTo(S, MaxListed) : NoDup(l)}

EmptyWorld ==
    [cloudformation |-> <<>>, s3 |-> <<>>, ecr |-> <<>>, lambda |-> <<>>,
     dynamodb |-> <<>>, ssm |-> <<>>, logs |-> <<>>]

\* what a step did: a prompt (kind "prompt", rtype the prompt's subject), the
\* provider calls of one function call (kind "call"), or only output
NoEvent ==
    [kind |-> "none", fn |-> "", rtype |-> "", name |-> <<>>, calls |-> <<>>,
     answer |-> FALSE, out |-> ""]

NoResources ==
    [cloudformation_stacks |-> <<>>, s3_buckets |-> <<>>,
     ecr_repositories |-> <<>>, vpc_lambdas |-> <<>>, ddb_tables |-> <<>>]

NoUnmanagedResources ==
    [s3_buckets |-> <<>>, ssm_params |-> <<>>, log_groups |-> <<>>]

RunIdle ==
    /\ no_confirm = FALSE
    /\ pc = "idle"
    /\ resources = NoResources
    /\ unmanaged_resources = NoUnmanagedResources
    /\ rtype = ""
    /\ idx = 0
    /\ event = NoEvent
    /\ raised = "none"
    /\ exit = "running"
    /\ called = {}
    /\ deleteOrder = <<>>

----------------------------------------------------------------------------
(* Specification of the name-filtering gatherers called on their own *)

InitNames ==
    /\ substrings \in SubstringLists
    /\ \E p \in 1..MaxPageSize :
          \/ \E l \in Listings(PlainNames) :
                world = [EmptyWorld EXCEPT !.s3 = l,
                                           !.dynamodb = Paginate(l, p),
                                           !.ecr = Paginate(l, p),
                                           !.logs = Paginate(l, p)]
          \/ \E l \in Listings(SsmNames) :
                world = [EmptyWorld EXCEPT !.ssm = Paginate(l, p)]
    /\ fn = ""
    /\ ret = <<>>
    /\ RunIdle

Return(f, value) ==
    /\ fn = ""
    /\ fn' = f
    /\ ret' = value
    /\ UNCHANGED <<world, substrings>>
    /\ UNCHANGED runVars

CallGatherS3Buckets ==
    Return("gather_s3_buckets", gather_s3_buckets(substrings, world.s3))

CallGatherDdbTables ==
    Return("gather_ddb_tables", gather_ddb_tables(substrings, world.dynamodb))

CallGatherEcrRepositories ==
    Return("gather_ecr_repositories",
           gather_ecr_repositories(substrings, world.ecr))

CallGatherLogGroups ==
    Return("gather_log_groups", gather_log_groups(substrings, world.logs))

CallGatherSsmParams ==
    Return("gather_ssm_params", gather_ssm_params(substrings, world.ssm))

NextNames ==
    \/ CallGatherS3Buckets
    \/ CallGatherDdbTables
    \/ CallGatherEcrRepositories
    \/ CallGatherLogGroups
    \/ CallGatherSsmParams

SpecNames == InitNames /\ [][NextNames]_vars

----------------------------------------------------------------------------
(* C1 *)

\* name contains sub: name = pre \o sub \o post for some pre and post
Contains(name, sub) ==
    \E i, j \in 0..Len(name) :
        /\ i <= j
        /\ j - i = Len(sub)
        /\ \A k \in 1..Len(sub) : name[i + k] = sub[k]

HasPathPrefix(name, sub) ==
    /\ Len(name) >= Len(sub) + 2
    /\ name[1] = "/"
    /\ \A k \in 1..Len(sub) : name[1 + k] = sub[k]
    /\ name[Len(sub) + 2] = "/"

ListedIn(f) ==
    CASE f = "gather_s3_buckets" -> world.s3
      [] f = "gather_ddb_tables" -> Flatten(world.dynamodb)
      [] f = "gather_ecr_repositories" -> Flatten(world.ecr)
      [] f = "gather_log_groups" -> Flatten(world.logs)
      [] f = "gather_ssm_params" -> Flatten(world.ssm)
      [] OTHER -> <<>>

Selected(f, name) ==
    IF f = "gather_ssm_params"
    THEN \E sub \in Range(substrings) : HasPathPrefix(name, sub)
    ELSE \E sub \in Range(substrings) : Contains(name, sub)

NameGatherers ==
    {"gather_s3_buckets", "gather_ddb_tables", "gather_ecr_repositories",
     "gather_log_groups", "gather_ssm_params"}

\* C1: each name-filtering gatherer returns, once each, exactly the listed
\* names that contain at least one configured substring (gather_ssm_params:
\* that start with "/{substring}/" for at least one configured substring).
C1_NameFilters ==
    fn \in NameGatherers =>
        /\ \A name \in Range(ListedIn(fn)) :
              name \in Range(ret) <=> Selected(fn, name)
        /\ Range(ret) \subseteq Range(ListedIn(fn))
        /\ NoDup(ret)

\* a gatherer has returned some names and left others out, with two substrings
C1_Witness ==
    /\ fn \in NameGatherers
    /\ Len(substrings) = 2
    /\ Len(ret) >= 1
    /\ Len(ret) < Len(ListedIn(fn))

----------------------------------------------------------------------------
(* Specification of gather_cloudformation_stacks called on its own *)

CREATE_COMPLETE == <<"CREATE", "COMPLETE">>

StackStatuses ==
    { CREATE_COMPLETE, DELETE_COMPLETE, <<"DELETE", "IN", "PROGRESS">>,
      <<"DELETE", "FAILED">> }

StackNames == { <<"a", "b">>, <<"c">> }

StackSubstringLists == SeqsUpTo({ <<"a">>, <<"c">> }, MaxSubs)

TopStack(name, status, time) ==
    [StackName |-> name, StackStatus |-> status, CreationTime |-> time]

NestedStack(name, status, time) ==
    [StackName |-> name, StackStatus |-> status, CreationTime |-> time,
     ParentId |-> "arn"]

\* CloudFormation keeps the names of the stacks that are not deleted distinct
LiveNamesUnique(stacks) ==
    \A i, j \in 1..Len(stacks) :
        (/\ i # j
         /\ stacks[i].StackStatus # DELETE_COMPLETE
         /\ stacks[j].StackStatus # DELETE_COMPLETE)
        => stacks[i].StackName # stacks[j].StackName

\* stacks of any status, nested or not, the k-th created at time k
StatusListings ==
    { l \in UNION { [1..k -> [name : StackNames, status : StackStatuses,
                              nested : BOOLEAN]] : k \in 0..MaxStacks } :
        LiveNamesUnique([i \in 1..Len(l) |->
                            TopStack(l[i].name, l[i].status, i)]) }

StatusStacks(l) ==
    [i \in 1..Len(l) |->
        IF l[i].nested THEN NestedStack(l[i].name, l[i].status, i)
        ELSE TopStack(l[i].name, l[i].status, i)]

\* the k-th stack of a listing of live parent stacks is named a, ax, axx, ...
PoolName(k) == <<"a">> \o [i \in 1..(k - 1) |-> "x"]

TimedStacks(times) ==
    [i \in 1..Len(times) |-> TopStack(PoolName(i), CREATE_COMPLETE, times[i])]

InitStacks ==
    /\ substrings \in StackSubstringLists
    /\ \E p \in 1..MaxPageSize :
          \/ \E l \in StatusListings :
                world = [EmptyWorld EXCEPT
                            !.cloudformation = Paginate(StatusStacks(l), p)]
          \/ \E times \in SeqsUpTo(1..MaxTime, MaxListed) :
                world = [EmptyWorld EXCEPT
                            !.cloudformation = Paginate(TimedStacks(times), p)]
    /\ fn = ""
    /\ ret = <<>>
    /\ RunIdle

CallGatherCloudformationStacks ==
    Return("gather_cloudformation_stacks",
           gather_cloudformation_stacks(substrings, world.cloudformation))

NextStacks == CallGatherCloudformationStacks

SpecStacks == InitStacks /\ [][NextStacks]_vars

ListedStacks == Flatten(world.cloudformation)

\* the claim's condition on a listed stack
Qualifies(stack) ==
    /\ \E sub \in Range(substrings) : Contains(stack.StackName, sub)
    /\ stack.StackStatus # DELETE_COMPLETE
    /\ "ParentId" \notin DOMAIN stack

\* C2: gather_cloudformation_stacks returns a listed stack if and only if
\* its name contains a configured substring, its status is not
\* DELETE_COMPLETE and it has no parent; DELETE_IN_PROGRESS and DELETE_FAILED
\* stacks are returned like those of any other status.
C2_StackFilter ==
    fn = "gather_cloudformation_stacks" =>
        /\ \A stack \in Range(ListedStacks) :
              Qualifies(stack) => stack.StackName \in Range(ret)
        /\ \A name \in Range(ret) :
              \E stack \in Range(ListedStacks) :
                  stack.StackName = name /\ Qualifies(stack)
        /\ Len(ret) =
              Cardinality({i \in 1..Len(ListedStacks) : Qualifies(ListedStacks[i])})

\* a DELETE_FAILED or DELETE_IN_PROGRESS stack was returned while a
\* DELETE_COMPLETE or nested stack with a matching name was left out
C2_Witness ==
    /\ fn = "gather_cloudformation_stacks"
    /\ \E stack \in Range(ListedStacks) :
          /\ stack.StackStatus \in {<<"DELETE", "FAILED">>,
                                    <<"DELETE", "IN", "PROGRESS">>}
          /\ Qualifies(stack)
          /\ stack.StackName \in Range(ret)
    /\ \E stack \in Range(ListedStacks) :
          /\ \E sub \in Range(substrings) : Contains(stack.StackName, sub)
          /\ ~Qualifies(stack)
          /\ stack.StackName \notin Range(ret)

\* creation time of the gathered stack of that name
TimeOf(name) ==
    (CHOOSE stack \in Range(ListedStacks) :
        /\ stack.StackName = name
        /\ stack.StackStatus # DELETE_COMPLETE).CreationTime

\* C3: in the list gather_cloudformation_stacks returns, of any two stacks
\* the one created later comes before the one created earlier, whatever the
\* order and the pages of the listing.
C3_NewestFirst ==
    fn = "gather_cloudformation_stacks" =>
        \A i, j \in 1..Len(ret) :
            TimeOf(ret[i]) > TimeOf(ret[j]) => i < j

\* two stacks listed oldest first, on different pages, were returned newest
\* first
C3_Witness ==
    /\ fn = "gather_cloudformation_stacks"
    /\ Len(world.cloudformation) >= 2
    /\ Len(ret) >= 2
    /\ \E i, j \in 1..Len(ListedStacks) :
          /\ i < j
          /\ ListedStacks[i].CreationTime < ListedStacks[j].CreationTime
          /\ ListedStacks[i].StackName # ListedStacks[j].StackName
          /\ \E m, n \in 1..Len(ret) :
                /\ m < n
                /\ ret[m] = ListedStacks[j].StackName
                /\ ret[n] = ListedStacks[i].StackName

----------------------------------------------------------------------------
(* Specification of gather_vpc_lambdas called on its own *)

LambdaNames == { <<"a", "b">>, <<"c">> }

\* a function without VpcConfig, with a VpcConfig that has no VpcId, with an
\* empty VpcId, and with a VpcId
LambdaFunctions(name) ==
    { [FunctionName |-> name],
      [FunctionName |-> name, VpcConfig |-> [SubnetIds |-> <<>>]],
      [FunctionName |-> name, VpcConfig |-> [SubnetIds |-> <<>>, VpcId |-> <<>>]],
      [FunctionName |-> name,
       VpcConfig |-> [SubnetIds |-> <<"s">>, VpcId |-> <<"v">>]] }

AllLambdaFunctions == UNION { LambdaFunctions(name) : name \in LambdaNames }

LambdaListings ==
    { l \in SeqsUpTo(AllLambdaFunctions, MaxListed) :
        NoDup([i \in 1..Len(l) |-> l[i].FunctionName]) }

InitLambdas ==
    /\ substrings \in SubstringLists
    /\ \E p \in 1..MaxPageSize, l \in LambdaListings :
          world = [EmptyWorld EXCEPT !.lambda = Paginate(l, p)]
    /\ fn = ""
    /\ ret = <<>>
    /\ RunIdle

CallGatherVpcLambdas ==
    Return("gather_vpc_lambdas", gather_vpc_lambdas(substrings, world.lambda))

NextLambdas == CallGatherVpcLambdas

SpecLambdas == InitLambdas /\ [][NextLambdas]_vars

ListedFunctions == Flatten(world.lambda)

\* the claim's condition on a listed function
InVpc(function) ==
    /\ \E sub \in Range(substrings) : Contains(function.FunctionName, sub)
    /\ "VpcConfig" \in DOMAIN function
    /\ "VpcId" \in DOMAIN function.VpcConfig
    /\ Len(function.VpcConfig.VpcId) > 0

\* C4: gather_vpc_lambdas returns a listed function if and only if its name
\* contains a configured substring and its VpcConfig is present with a
\* non-empty VpcId.
C4_LambdaFilter ==
    fn = "gather_vpc_lambdas" =>
        /\ \A function \in Range(ListedFunctions) :
              function.FunctionName \in Range(ret) <=> InVpc(function)
        /\ Range(ret) \subseteq
              {function.FunctionName : function \in Range(ListedFunctions)}
        /\ NoDup(ret)

\* a function in a VPC was returned, and one whose name matches but whose
\* VpcConfig is absent or has no VPC id was left out
C4_Witness ==
    /\ fn = "gather_vpc_lambdas"
    /\ Len(ret) >= 1
    /\ \E function \in Range(ListedFunctions) :
          /\ \E sub \in Range(substrings) : Contains(function.FunctionName, sub)
          /\ "VpcConfig" \in DOMAIN function
          /\ ~InVpc(function)
          /\ function.FunctionName \notin Range(ret)

----------------------------------------------------------------------------
(* Provider call results *)

Ok == [type |-> "ok", Code |-> "", Message |-> <<>>]

ClientError(code, message) ==
    [type |-> "ClientError", Code |-> code, Message |-> message]

\* messages are sequences of words
StackNotExist ==
    ClientError("ValidationError", <<"Stack", "x", "does", "not", "exist">>)

RoleInvalid ==
    ClientError("ValidationError", <<"Role", "is", "invalid">>)

UserNotExist ==
    ClientError("AccessDenied", <<"User", "does", "not", "exist">>)

AccessDenied == ClientError("AccessDenied", <<"not", "authorized">>)

\* botocore.exceptions.WaiterError is not a ClientError
WaiterError ==
    [type |-> "WaiterError", Code |-> "",
     Message |-> <<"Waiter", "StackDeleteComplete", "failed">>]

CloudformationResults ==
    {Ok, StackNotExist, RoleInvalid, UserNotExist, AccessDenied, WaiterError}

CallResults == {Ok, AccessDenied}

Call(api, result) == [api |-> api, result |-> result]

----------------------------------------------------------------------------
(* Deleters and updaters: what one call of the function does, given the     *)
(* results r1, r2 of its provider calls.  raised is the exception that      *)
(* leaves the function ("none": it returns), out what it prints.            *)

Outcome(calls, exc, out) == [calls |-> calls, raised |-> exc, out |-> out]

\* helpers.raise_for_click
raise_for_click == "ClickException"

StackErrorSwallowsAll(e) ==
    IF e.type = "ClientError"
    THEN [raised |-> "none", out |-> "does not exist or is already deleted"]
    ELSE [raised |-> e.type, out |-> ""]

StackErrorAlwaysRaises(e) ==
    IF e.type = "ClientError" THEN [raised |-> raise_for_click, out |-> ""]
    ELSE [raised |-> e.type, out |-> ""]

\* lines 212-224: the except clause of delete_cloudformation_stack
StackError(e) ==
    IF e.type = "ClientError"
    THEN IF /\ e.Code = "ValidationError"
            /\ In(<<"does", "not", "exist">>, e.Message)
         THEN [raised |-> "none", out |-> "does not exist or is already deleted"]
         ELSE [raised |-> raise_for_click, out |-> ""]
    ELSE [raised |-> e.type, out |-> ""]

delete_cloudformation_stack(r1, r2) ==
    IF r1.type # "ok"
    THEN Outcome(<<Call("delete_stack", r1)>>,
                 StackError(r1).raised, StackError(r1).out)
    ELSE IF r2.type # "ok"
    THEN Outcome(<<Call("delete_stack", r1), Call("stack_delete_complete.wait", r2)>>,
                 StackError(r2).raised, StackError(r2).out)
    ELSE Outcome(<<Call("delete_stack", r1), Call("stack_delete_complete.wait", r2)>>,
                 "none", "deleted successfully")

delete_s3_bucket_deletes_anyway(r1, r2) ==
    IF r1.type # "ok" \/ r2.type # "ok"
    THEN Outcome(<<Call("object_versions.delete", r1), Call("bucket.delete", r2)>>,
                 raise_for_click, "")
    ELSE Outcome(<<Call("object_versions.delete", r1), Call("bucket.delete", r2)>>,
                 "none", "Deleted S3 bucket")

delete_s3_bucket(r1, r2) ==
    IF r1.type # "ok"
    THEN Outcome(<<Call("object_versions.delete", r1)>>, raise_for_click, "")
    ELSE IF r2.type # "ok"
    THEN Outcome(<<Call("object_versions.delete", r1), Call("bucket.delete", r2)>>,
                 raise_for_click, "")
    ELSE Outcome(<<Call("object_versions.delete", r1), Call("bucket.delete", r2)>>,
                 "none", "Deleted S3 bucket")

delete_ecr_repository(r1) ==
    IF r1.type # "ok"
    THEN Outcome(<<Call("delete_repository", r1)>>, raise_for_click, "")
    ELSE Outcome(<<Call("delete_repository", r1)>>, "none", "Deleted ECR repository")

delete_ssm_param(r1) ==
    IF r1.type # "ok"
    THEN Outcome(<<Call("delete_parameter", r1)>>, raise_for_click, "")
    ELSE Outcome(<<Call("delete_parameter", r1)>>, "none", "Deleted SSM Parameter")

delete_log_group(r1) ==
    IF r1.type # "ok"
    THEN Outcome(<<Call("delete_log_group", r1)>>, raise_for_click, "")
    ELSE Outcome(<<Call("delete_log_group", r1)>>, "none", "Deleted Log Group")

\* the dict delete_methods, in its order
DeleteMethodTypesLogsFirst ==
    <<"cloudformation_stacks", "s3_buckets", "ecr_repositories", "log_groups",
      "ssm_params">>

DeleteMethodTypes ==
    <<"cloudformation_stacks", "s3_buckets", "ecr_repositories", "ssm_params",
      "log_groups">>

DeleterName(t) ==
    CASE t = "cloudformation_stacks" -> "delete_cloudformation_stack"
      [] t = "s3_buckets" -> "delete_s3_bucket"
      [] t = "ecr_repositories" -> "delete_ecr_repository"
      [] t = "ssm_params" -> "delete_ssm_param"
      [] t = "log_groups" -> "delete_log_group"

delete_methods(t, r1, r2) ==
    CASE t = "cloudformation_stacks" -> delete_cloudformation_stack(r1, r2)
      [] t = "s3_buckets" -> delete_s3_bucket(r1, r2)
      [] t = "ecr_repositories" -> delete_ecr_repository(r1)
      [] t = "ssm_params" -> delete_ssm_param(r1)
      [] t = "log_groups" -> delete_log_group(r1)

\* one iteration of the loop of empty_s3_buckets
empty_s3_buckets(r1) ==
    IF r1.type # "ok"
    THEN Outcome(<<Call("object_versions.delete", r1)>>, r1.type, "")
    ELSE Outcome(<<Call("object_versions.delete", r1)>>, "none", "Emptied S3 bucket")

empty_ecr_repositories_ignores_errors(r1, has_images, r2) ==
    IF r1.type # "ok"
    THEN Outcome(<<Call("list_images", r1)>>, "none", "")
    ELSE IF ~has_images
    THEN Outcome(<<Call("list_images", r1)>>, "none", "")
    ELSE Outcome(<<Call("list_images", r1), Call("batch_delete_image", r2)>>,
                 "none", "Emptied ECR repository")

\* one iteration of the loop of empty_ecr_repositories; has_images: the
\* repository lists at least one image
empty_ecr_repositories(r1, has_images, r2) ==
    IF r1.type # "ok"
    THEN Outcome(<<Call("list_images", r1)>>, r1.type, "")
    ELSE IF ~has_images
    THEN Outcome(<<Call("list_images", r1)>>, "none", "")
    ELSE IF r2.type # "ok"
    THEN Outcome(<<Call("list_images", r1), Call("batch_delete_image", r2)>>,
                 r2.type, "")
    ELSE Outcome(<<Call("list_images", r1), Call("batch_delete_image", r2)>>,
                 "none", "Emptied ECR repository")

update_lambda_vpc_config_raises(r1) ==
    IF r1.type # "ok"
    THEN Outcome(<<Call("update_function_configuration", r1)>>, raise_for_click, "")
    ELSE Outcome(<<Call("update_function_configuration", r1)>>, "none",
                 "Updated Lambda function")

\* one iteration of the loop of update_lambda_vpc_config
update_lambda_vpc_config(r1) ==
    IF r1.type # "ok"
    THEN Outcome(<<Call("update_function_configuration", r1)>>, "none",
                 "Failed to update Lambda function")
    ELSE Outcome(<<Call("update_function_configuration", r1)>>, "none",
                 "Updated Lambda function")

\* one iteration of the loop of remove_ddb_deletion_protection
remove_ddb_deletion_protection(r1) ==
    IF r1.type # "ok"
    THEN Outcome(<<Call("update_table", r1)>>, "none",
                 "Failed to disable deletion protection")
    ELSE Outcome(<<Call("update_table", r1)>>, "none",
                 "Deletion protection disabled")

----------------------------------------------------------------------------
(* A run of the cleanup-env command: cleanup_env_cli calls cleanup_env *)

ManagedTypesStacksFirst ==
    <<"cloudformation_stacks", "s3_buckets", "ecr_repositories", "vpc_lambdas",
      "ddb_tables">>

\* the order of the managed steps of cleanup_env (lines 358-434)
ManagedTypes ==
    <<"s3_buckets", "ecr_repositories", "vpc_lambdas", "ddb_tables",
      "cloudformation_stacks">>

IndexOf(seq, x) == CHOOSE i \in 1..Len(seq) : seq[i] = x

Services == {"cloudformation", "s3", "ecr", "lambda", "dynamodb", "ssm", "logs"}

\* listings of a populated service: RunListed names that contain "a", after
\* entries that the gatherer has to leave out
RunPlainNames == <<<<"c">>>> \o [i \in 1..RunListed |-> PoolName(i)]

RunSsmNames ==
    <<<<"/", "c", "/", "a">>>>
    \o [i \in 1..RunListed |-> <<"/", "a", "/">> \o PoolName(i)]

RunStacks ==
    <<NestedStack(<<"a", "n">>, CREATE_COMPLETE, 1),
      TopStack(<<"a", "d">>, DELETE_COMPLETE, 1)>>
    \o [i \in 1..RunListed |-> TopStack(PoolName(i), CREATE_COMPLETE, i)]

RunFunctions ==
    <<[FunctionName |-> <<"a", "n">>]>>
    \o [i \in 1..RunListed |->
           [FunctionName |-> PoolName(i),
            VpcConfig |-> [SubnetIds |-> <<"s">>, VpcId |-> <<"v">>]]]

RunWorld(populated) ==
    LET pages(svc, items) ==
            IF svc \in populated THEN Paginate(items, MaxPageSize) ELSE <<>>
    IN  [cloudformation |-> pages("cloudformation", RunStacks),
         s3 |-> IF "s3" \in populated THEN RunPlainNames ELSE <<>>,
         ecr |-> pages("ecr", RunPlainNames),
         lambda |-> pages("lambda", RunFunctions),
         dynamodb |-> pages("dynamodb", RunPlainNames),
         ssm |-> pages("ssm", RunSsmNames),
         logs |-> pages("logs", RunPlainNames)]

Init ==
    /\ \E populated \in SUBSET Services : world = RunWorld(populated)
    /\ substrings = <<<<"a">>>>
    /\ no_confirm \in BOOLEAN
    /\ pc = "start"
    /\ resources = NoResources
    /\ unmanaged_resources = NoUnmanagedResources
    /\ rtype = ""
    /\ idx = 0
    /\ event = NoEvent
    /\ raised = "none"
    /\ exit = "running"
    /\ called = {}
    /\ deleteOrder = <<>>
    /\ fn = ""
    /\ ret = <<>>

Prompt(subject, answer) ==
    [NoEvent EXCEPT !.kind = "prompt", !.fn = "click.confirm",
                    !.rtype = subject, !.answer = answer]

Output(t, out) == [NoEvent EXCEPT !.kind = "output", !.rtype = t, !.out = out]

Called(f, t, name, o) ==
    [NoEvent EXCEPT !.kind = "call", !.fn = f, !.rtype = t, !.name = name,
                    !.calls = o.calls, !.out = o.out]

inputVars == <<world, substrings, no_confirm, fn, ret>>

\* line 354: click.confirm("Do you want to proceed?")
Proceed ==
    /\ pc = "start"
    /\ \E answer \in BOOLEAN :
          /\ event' = Prompt("proceed", answer)
          /\ pc' = IF answer THEN "gather" ELSE "return"
    /\ UNCHANGED <<resources, unmanaged_resources, rtype, idx, raised, exit,
                   called, deleteOrder>>
    /\ UNCHANGED inputVars

\* the listing calls of gather_resources, in the order of the dict
ManagedListCalls ==
    <<"list_stacks", "buckets.all", "describe_repositories", "list_functions",
      "list_tables">>

UnmanagedListCalls == <<"buckets.all", "describe_parameters", "describe_log_groups">>

\* the calls made when the f-th listing call fails (f = 0: none fails)
ListCalls(apis, f) ==
    [i \in 1..(IF f = 0 THEN Len(apis) ELSE f) |->
        Call(apis[i], IF i = f THEN AccessDenied ELSE Ok)]

\* line 356: resources = gather_resources(substrings, region)
GatherResources ==
    /\ pc = "gather"
    /\ called' = called \cup {"gather_resources"}
    /\ \E f \in 0..Len(ManagedListCalls) :
          /\ event' = Called("gather_resources", "", <<>>,
                             Outcome(ListCalls(ManagedListCalls, f), "none", ""))
          /\ IF f = 0
             THEN /\ resources' =
                        [cloudformation_stacks |->
                            gather_cloudformation_stacks(substrings, world.cloudformation),
                         s3_buckets |-> gather_s3_buckets(substrings, world.s3),
                         ecr_repositories |->
                            gather_ecr_repositories(substrings, world.ecr),
                         vpc_lambdas |-> gather_vpc_lambdas(substrings, world.lambda),
                         ddb_tables |-> gather_ddb_tables(substrings, world.dynamodb)]
                  /\ pc' = "managed"
                  /\ rtype' = ManagedTypes[1]
                  /\ raised' = raised
             ELSE /\ raised' = AccessDenied.type
                  /\ pc' = "raised"
                  /\ UNCHANGED <<resources, rtype>>
    /\ UNCHANGED <<unmanaged_resources, idx, exit, deleteOrder>>
    /\ UNCHANGED inputVars

\* what follows the managed step of type t
AfterManaged(t) ==
    IF IndexOf(ManagedTypes, t) < Len(ManagedTypes)
    THEN [pc |-> "managed", rtype |-> ManagedTypes[IndexOf(ManagedTypes, t) + 1]]
    ELSE [pc |-> "gather_unmanaged", rtype |-> ""]

\* what follows the unmanaged step of type t
AfterUnmanaged(t) ==
    IF IndexOf(DeleteMethodTypes, t) < Len(DeleteMethodTypes)
    THEN [pc |-> "unmanaged",
          rtype |-> DeleteMethodTypes[IndexOf(DeleteMethodTypes, t) + 1]]
    ELSE [pc |-> "return", rtype |-> ""]

Goto(next) ==
    /\ pc' = next.pc
    /\ rtype' = next.rtype
    /\ idx' = 0

DeclinedManagedNeverAborts(t) ==
    /\ raised' = raised
    /\ Goto(AfterManaged(t))

\* line 432: ctx.abort() when the stack prompt is declined
DeclinedManagedProceeds(t) ==
    /\ raised' = raised
    /\ pc' = "managed_loop"
    /\ idx' = 1
    /\ rtype' = t

DeclinedManaged(t) ==
    IF t = "cloudformation_stacks"
    THEN /\ raised' = "Abort"
         /\ pc' = "raised"
         /\ UNCHANGED <<rtype, idx>>
    ELSE /\ raised' = raised
         /\ Goto(AfterManaged(t))

\* lines 359-366, 374-380, 387-396, 403-412, 418-426: the names of a managed
\* type are printed and the step is confirmed
ManagedConfirm ==
    /\ pc = "managed"
    /\ IF resources[rtype] = <<>>
       THEN /\ event' = Output(rtype, IF rtype = "ddb_tables" THEN ""
                                       ELSE "No resources")
            /\ raised' = raised
            /\ Goto(AfterManaged(rtype))
       ELSE IF no_confirm
       THEN /\ event' = Output(rtype, "The following will be processed")
            /\ raised' = raised
            /\ pc' = "managed_loop"
            /\ idx' = 1
            /\ rtype' = rtype
       ELSE \E answer \in BOOLEAN :
               /\ event' = Prompt(rtype, answer)
               /\ IF answer
                  THEN /\ raised' = raised
                       /\ pc' = "managed_loop"
                       /\ idx' = 1
                       /\ rtype' = rtype
                  ELSE DeclinedManaged(rtype)
    /\ UNCHANGED <<resources, unmanaged_resources, exit, called, deleteOrder>>
    /\ UNCHANGED inputVars

\* one iteration of a loop over names: function f was called for names[idx]
\* with outcome o; the loop goes on, ends, or the exception leaves cleanup_env
LoopStep(f, names, o, after) ==
    /\ event' = Called(f, rtype, names[idx], o)
    /\ called' = called \cup {f}
    /\ deleteOrder' =
          IF f = "delete_cloudformation_stack"
          THEN Append(deleteOrder, names[idx]) ELSE deleteOrder
    /\ IF o.raised # "none"
       THEN /\ raised' = o.raised
            /\ pc' = "raised"
            /\ UNCHANGED <<rtype, idx>>
       ELSE /\ raised' = raised
            /\ IF idx < Len(names)
               THEN /\ idx' = idx + 1
                    /\ UNCHANGED <<pc, rtype>>
               ELSE Goto(after)
    /\ UNCHANGED <<resources, unmanaged_resources, exit>>
    /\ UNCHANGED inputVars

\* line 367 and lines 172-175
EmptyS3Buckets ==
    /\ pc = "managed_loop"
    /\ rtype = "s3_buckets"
    /\ \E r1 \in CallResults :
          LoopStep("empty_s3_buckets", resources[rtype], empty_s3_buckets(r1),
                   AfterManaged(rtype))

\* line 381 and lines 181-189
EmptyEcrRepositories ==
    /\ pc = "managed_loop"
    /\ rtype = "ecr_repositories"
    /\ \E r1, r2 \in CallResults, has_images \in BOOLEAN :
          LoopStep("empty_ecr_repositories", resources[rtype],
                   empty_ecr_repositories(r1, has_images, r2), AfterManaged(rtype))

\* line 397 and lines 278-289
UpdateLambdaVpcConfig ==
    /\ pc = "managed_loop"
    /\ rtype = "vpc_lambdas"
    /\ \E r1 \in CallResults :
          LoopStep("update_lambda_vpc_config", resources[rtype],
                   update_lambda_vpc_config(r1), AfterManaged(rtype))

\* line 413 and lines 301-312
RemoveDdbDeletionProtection ==
    /\ pc = "managed_loop"
    /\ rtype = "ddb_tables"
    /\ \E r1 \in CallResults :
          LoopStep("remove_ddb_deletion_protection", resources[rtype],
                   remove_ddb_deletion_protection(r1), AfterManaged(rtype))

\* lines 427-430: delete_resources({"cloudformation_stacks": ...}), one
\* iteration of its loop (lines 330-331)
DeleteResources ==
    /\ pc = "managed_loop"
    /\ rtype = "cloudformation_stacks"
    /\ \E r1, r2 \in CloudformationResults :
          LoopStep(DeleterName(rtype), resources[rtype],
                   delete_methods(rtype, r1, r2), AfterManaged(rtype))

\* line 437: unmanaged_resources = gather_unmanaged_resources(substrings, region)
GatherUnmanagedResources ==
    /\ pc = "gather_unmanaged"
    /\ called' = called \cup {"gather_unmanaged_resources"}
    /\ \E f \in 0..Len(UnmanagedListCalls) :
          /\ event' = Called("gather_unmanaged_resources", "", <<>>,
                             Outcome(ListCalls(UnmanagedListCalls, f), "none", ""))
          /\ IF f = 0
             THEN /\ unmanaged_resources' =
                        [s3_buckets |-> gather_s3_buckets(substrings, world.s3),
                         ssm_params |-> gather_ssm_params(substrings, world.ssm),
                         log_groups |-> gather_log_groups(substrings, world.logs)]
                  /\ pc' = "unmanaged"
                  /\ rtype' = DeleteMethodTypes[1]
                  /\ raised' = raised
             ELSE /\ raised' = AccessDenied.type
                  /\ pc' = "raised"
                  /\ UNCHANGED <<unmanaged_resources, rtype>>
    /\ UNCHANGED <<resources, idx, exit, deleteOrder>>
    /\ UNCHANGED inputVars

\* line 441: unmanaged_resources.get(resource_type, [])
UnmanagedNames(t) ==
    IF t \in DOMAIN unmanaged_resources THEN unmanaged_resources[t] ELSE <<>>

\* lines 440-452: one entry of delete_methods.items() is checked and confirmed
UnmanagedConfirm ==
    /\ pc = "unmanaged"
    /\ IF UnmanagedNames(rtype) = <<>>
       THEN /\ event' = Output(rtype, "")
            /\ Goto(AfterUnmanaged(rtype))
       ELSE IF no_confirm
       THEN /\ event' = Output(rtype, "The following will be deleted")
            /\ pc' = "unmanaged_loop"
            /\ idx' = 1
            /\ rtype' = rtype
       ELSE \E answer \in BOOLEAN :
               /\ event' = Prompt(rtype, answer)
               /\ IF answer
                  THEN /\ pc' = "unmanaged_loop"
                       /\ idx' = 1
                       /\ rtype' = rtype
                  ELSE Goto(AfterUnmanaged(rtype))
    /\ UNCHANGED <<resources, unmanaged_resources, raised, exit, called,
                   deleteOrder>>
    /\ UNCHANGED inputVars

\* lines 453-454: delete_function(resource_name, region)
UnmanagedDelete ==
    /\ pc = "unmanaged_loop"
    /\ \E r1, r2 \in CallResults :
          LoopStep(DeleterName(rtype), UnmanagedNames(rtype),
                   delete_methods(rtype, r1, r2), AfterUnmanaged(rtype))

\* cli.py line 85: cleanup_env returned
CliReturn ==
    /\ pc = "return"
    /\ exit = "running"
    /\ exit' = "ok"
    /\ UNCHANGED <<pc, resources, unmanaged_resources, rtype, idx, event, raised,
                   called, deleteOrder>>
    /\ UNCHANGED inputVars

\* cli.py lines 86-87: except Exception as e: raise_for_click(e)
CliRaise ==
    /\ pc = "raised"
    /\ exit = "running"
    /\ exit' = raise_for_click
    /\ UNCHANGED <<pc, resources, unmanaged_resources, rtype, idx, event, raised,
                   called, deleteOrder>>
    /\ UNCHANGED inputVars

Next ==
    \/ Proceed
    \/ GatherResources
    \/ ManagedConfirm
    \/ EmptyS3Buckets
    \/ EmptyEcrRepositories
    \/ UpdateLambdaVpcConfig
    \/ RemoveDdbDeletionProtection
    \/ DeleteResources
    \/ GatherUnmanagedResources
    \/ UnmanagedConfirm
    \/ UnmanagedDelete
    \/ CliReturn
    \/ CliRaise

Spec == Init /\ [][Next]_vars

----------------------------------------------------------------------------
(* Properties of a run *)

LastCall(e) == e.calls[Len(e.calls)]

\* the step made a provider call that failed
Failed(e) == e.kind = "call" /\ e.calls # <<>> /\ LastCall(e).result.type # "ok"

\* the result is a ValidationError client error saying the stack does not exist
IsStackNotExist(r) ==
    /\ r.type = "ClientError"
    /\ r.Code = "ValidationError"
    /\ Contains(r.Message, <<"does", "not", "exist">>)

ManagedOps ==
    {"empty_s3_buckets", "empty_ecr_repositories", "update_lambda_vpc_config",
     "remove_ddb_deletion_protection"}

UnmanagedDeleters == {"delete_s3_bucket", "delete_ssm_param", "delete_log_group"}

\* C5: with no_confirm set, cleanup_env issues no confirmation prompt at any
\* step of the run.
C5_NoPromptWhenNoConfirm == no_confirm => event.kind # "prompt"

\* the step that follows a declined prompt other than the stack prompt
StepAfterDeclined(p, t) ==
    CASE p = "managed" /\ t = "s3_buckets" -> <<"managed", "ecr_repositories">>
      [] p = "managed" /\ t = "ecr_repositories" -> <<"managed", "vpc_lambdas">>
      [] p = "managed" /\ t = "vpc_lambdas" -> <<"managed", "ddb_tables">>
      [] p = "managed" /\ t = "ddb_tables" -> <<"managed", "cloudformation_stacks">>
      [] p = "unmanaged" /\ t = "s3_buckets" -> <<"unmanaged", "ecr_repositories">>
      [] p = "unmanaged" /\ t = "ssm_params" -> <<"unmanaged", "log_groups">>
      [] p = "unmanaged" /\ t = "log_groups" -> <<"return", "">>
      [] OTHER -> <<"", "">>

\* C6: declining the CloudFormation stack prompt aborts the run: no stack is
\* deleted, the unmanaged inventory is never gathered, no unmanaged resource
\* is deleted.  Declining any other per-type prompt only skips that step:
\* nothing is raised and the run is at the step that follows.
C6_DeclineStacksAborts ==
    [][ /\ (/\ pc \in {"managed", "unmanaged"}
            /\ event'.kind = "prompt"
            /\ ~event'.answer)
           => IF pc = "managed" /\ rtype = "cloudformation_stacks"
              THEN /\ raised' = "Abort"
                   /\ pc' = "raised"
              ELSE /\ raised' = "none"
                   /\ <<pc', rtype'>> = StepAfterDeclined(pc, rtype)
                   /\ called' = called
        /\ raised = "Abort" =>
              /\ deleteOrder = <<>>
              /\ "delete_cloudformation_stack" \notin called
              /\ "gather_unmanaged_resources" \notin called
              /\ called \cap UnmanagedDeleters = {}
              /\ unmanaged_resources = NoUnmanagedResources
              /\ event' = event /\ called' = called /\ deleteOrder' = deleteOrder
              /\ unmanaged_resources' = unmanaged_resources
              /\ raised' = raised
      ]_vars

\* the S3 prompt was declined, the ECR step ran, the stack prompt was declined
\* and the command ended in an error
C6_Witness ==
    /\ raised = "Abort"
    /\ exit = "ClickException"
    /\ resources.s3_buckets # <<>>
    /\ "empty_s3_buckets" \notin called
    /\ "empty_ecr_repositories" \in called
    /\ event = Prompt("cloudformation_stacks", FALSE)

\* C7: every S3 emptying, ECR emptying, Lambda VPC-config update and DynamoDB
\* deletion-protection update of the managed pass happens before the first
\* delete_stack call: once delete_cloudformation_stack has been called, no
\* step is made by one of these four functions.
C7_StacksLast ==
    (event.kind = "call" /\ event.fn \in ManagedOps)
        => "delete_cloudformation_stack" \notin called

\* stacks are being deleted after all four other managed steps made calls
C7_Witness ==
    /\ event.fn = "delete_cloudformation_stack"
    /\ ManagedOps \subseteq called

\* a step that calls delete_cloudformation_stack for one more stack
StackDeleteStep == deleteOrder' # deleteOrder

NewestFirst ==
    /\ deleteOrder' = SubSeq(resources.cloudformation_stacks, 1, Len(deleteOrder'))
    /\ event'.name = deleteOrder'[Len(deleteOrder')]
    /\ event'.calls[1].api = "delete_stack"
    /\ \A k \in 1..Len(deleteOrder) :
          TimeOf(deleteOrder[k]) >= TimeOf(event'.name)

C9_AbsentStackIsNoError ==
    [][ (StackDeleteStep /\ Failed(event')) =>
          LET r == LastCall(event').result
          IN  /\ IsStackNotExist(r) =>
                    /\ raised' = "none"
                    /\ exit' = "running"
                    /\ IF idx < Len(resources.cloudformation_stacks)
                       THEN pc' = "managed_loop" /\ idx' = idx + 1
                       ELSE pc' = "gather_unmanaged"
              /\ (r.type = "ClientError" /\ ~IsStackNotExist(r)) =>
                    /\ raised' = "ClickException"
                    /\ pc' = "raised"
      ]_vars

\* the waiter of the first stack failed with "does not exist" and the run is
\* about to delete the second stack
C9_Witness ==
    /\ event.fn = "delete_cloudformation_stack"
    /\ Len(event.calls) = 2
    /\ IsStackNotExist(LastCall(event).result)
    /\ raised = "none"
    /\ pc = "managed_loop"
    /\ idx = 2

Deleters ==
    {"delete_cloudformation_stack", "delete_s3_bucket", "delete_ecr_repository",
     "delete_ssm_param", "delete_log_group"}

Updaters == {"update_lambda_vpc_config", "remove_ddb_deletion_protection"}

\* a step in which function f was called for one more name
CallStep(f) == event'.kind = "call" /\ event'.fn = f /\ (pc # pc' \/ idx # idx')

\* once an exception leaves cleanup_env no further call is made, and the
\* command ends with the styled CLI error
RunEnded ==
    /\ pc' = "raised"
    /\ pc = "raised" =>
          /\ event' = event /\ called' = called /\ deleteOrder' = deleteOrder
          /\ exit' = "ClickException"

ContinuesAfter(names, next) ==
    /\ raised' = "none"
    /\ IF idx < Len(names)
       THEN pc' = pc /\ rtype' = rtype /\ idx' = idx + 1
       ELSE pc' = next

\* C10 as stated: every failure while deleting a stack, bucket, repository,
\* parameter or log group ends the run with a CLI-level error; a failure
\* while updating a Lambda function or a DynamoDB table is only printed and
\* the run continues.
C10_Original ==
    [][ /\ (\E f \in Deleters : CallStep(f) /\ Failed(event')) =>
              pc' = "raised"
        /\ (\E f \in Updaters : CallStep(f) /\ Failed(event')) =>
              ContinuesAfter(resources[rtype], "managed")
      ]_vars

\* C10 amended: a failure while deleting a stack, bucket, repository,
\* parameter or log group, other than the stack ValidationError "does not
\* exist", ends the run with a CLI-level error and no later call is made; a
\* failure while updating a Lambda function or a DynamoDB table is only
\* printed, and the run continues with the next name or the next step.
C10_DeleteFailuresEndRun ==
    [][ /\ (\E f \in Deleters : CallStep(f) /\ Failed(event')) =>
              \/ /\ event'.fn = "delete_cloudformation_stack"
                 /\ IsStackNotExist(LastCall(event').result)
              \/ /\ pc' = "raised"
                 /\ \/ raised' = "ClickException"
                    \/ /\ event'.fn = "delete_cloudformation_stack"
                       /\ LastCall(event').result.type # "ClientError"
                       /\ raised' = LastCall(event').result.type
        /\ (\E f \in Updaters : CallStep(f) /\ Failed(event')) =>
              /\ ContinuesAfter(resources[rtype], "managed")
              /\ event'.out \in {"Failed to update Lambda function",
                                 "Failed to disable deletion protection"}
        /\ pc = "raised" =>
              /\ event' = event /\ called' = called /\ deleteOrder' = deleteOrder
              /\ pc' = "raised"
              /\ exit' = "ClickException"
        /\ \A r \in CallResults \ {Ok} :
              delete_ecr_repository(r).raised = "ClickException"
      ]_vars

\* the first log group could not be deleted and the command ended in a CLI
\* error, after a Lambda update had failed and the run had gone on
C10_Witness ==
    /\ exit = "ClickException"
    /\ raised = "ClickException"
    /\ event.fn = "delete_log_group"
    /\ Failed(event)
    /\ idx = 1
    /\ "update_lambda_vpc_config" \in called

----------------------------------------------------------------------------
(* C11 *)

\* the functions whose provider errors no except clause catches
Unguarded ==
    {"gather_resources", "gather_unmanaged_resources", "empty_s3_buckets",
     "empty_ecr_repositories"}

\* C11: a provider error raised in a gatherer, in empty_s3_buckets or in
\* empty_ecr_repositories leaves cleanup_env as it is: the failing call is
\* the last call of the step (no retry), no further call is made, and the
\* command ends with the styled CLI error, never with success.
C11_UnhandledErrorsEndCommand ==
    [][ /\ (\E f \in Unguarded : CallStep(f) /\ Failed(event')) =>
              /\ raised' = LastCall(event').result.type
              /\ pc' = "raised"
              /\ exit' = "running"
              /\ \A i \in 1..(Len(event'.calls) - 1) :
                    /\ event'.calls[i].result = Ok
                    /\ event'.calls[i].api # LastCall(event').api
        /\ (pc = "raised" /\ event.fn \in Unguarded) =>
              /\ event' = event
              /\ called' = called
              /\ deleteOrder' = deleteOrder
              /\ pc' = "raised"
              /\ exit' = "ClickException"
      ]_vars

\* the second listing call of gather_unmanaged_resources failed after the
\* stacks had been deleted, and the command ended in the CLI error
C11_Witness ==
    /\ event.fn = "gather_unmanaged_resources"
    /\ Len(event.calls) = 2
    /\ Failed(event)
    /\ raised = "ClientError"
    /\ exit = "ClickException"
    /\ deleteOrder # <<>>

----------------------------------------------------------------------------
(* Specification of get_ssm_parameter called on its own *)

\* the names a caller may ask for and the values the provider may hold
ParameterNames == PlainNames \cup SsmNames

ParameterValues == PlainNames \cup SsmNames

\* response of ssm get_parameter
GetParameterResponse(value) ==
    [type |-> "ok", Code |-> "", Message |-> <<>>,
     Parameter |-> [Value |-> value]]

ParameterNotFound == ClientError("ParameterNotFound", <<"not", "found">>)

\* botocore.exceptions.EndpointConnectionError is a BotoCoreError, not a
\* ClientError
EndpointConnectionError ==
    [type |-> "EndpointConnectionError", Code |-> "",
     Message |-> <<"Could", "not", "connect", "to", "the", "endpoint">>]

GetParameterResults ==
    {GetParameterResponse(v) : v \in ParameterValues}
        \cup {ParameterNotFound, AccessDenied, EndpointConnectionError}

\* r: what get_parameter(Name=parameter_name, WithDecryption=True) does
get_ssm_parameter(parameter_name, r) ==
    IF r.type = "ok"
    THEN [value |-> r.Parameter.Value, raised |-> "none", message |-> ""]
    ELSE IF r.type = "ClientError"
    THEN IF r.Code = "ParameterNotFound"
         THEN [value |-> <<>>, raised |-> "ApplicationException",
               message |-> "Parameter not found."]
         ELSE [value |-> <<>>, raised |-> "ApplicationException",
               message |-> "An error occurred while fetching the SSM parameter"]
    ELSE [value |-> <<>>, raised |-> r.type, message |-> ""]

InitSsm ==
    /\ world = EmptyWorld
    /\ substrings = <<>>
    /\ fn = ""
    /\ ret = <<>>
    /\ RunIdle

CallGetSsmParameter ==
    \E parameter_name \in ParameterNames, r \in GetParameterResults :
        LET o == get_ssm_parameter(parameter_name, r) IN
        /\ fn = ""
        /\ fn' = "get_ssm_parameter"
        /\ ret' = o.value
        /\ raised' = o.raised
        /\ event' = [NoEvent EXCEPT !.kind = "call",
                                    !.fn = "get_ssm_parameter",
                                    !.name = parameter_name,
                                    !.calls = <<Call("get_parameter", r)>>,
                                    !.out = o.message]
        /\ UNCHANGED <<world, substrings, no_confirm, pc, resources,
                       unmanaged_resources, rtype, idx, exit, called,
                       deleteOrder>>

NextSsm == CallGetSsmParameter

SpecSsm == InitSsm /\ [][NextSsm]_vars

----------------------------------------------------------------------------
(* C12 *)

\* C12: get_ssm_parameter returns the value of the provider's response when
\* get_parameter succeeds, and every failure of get_parameter leaves it as
\* an ApplicationException ("not found" for ParameterNotFound); no other
\* exception type escapes.
C12_EveryFailureIsApplicationException ==
    fn = "get_ssm_parameter" =>
        LET r == LastCall(event).result IN
        /\ r.type = "ok" => raised = "none" /\ ret = r.Parameter.Value
        /\ r.type # "ok" => raised = "ApplicationException"
        /\ r = ParameterNotFound => event.out = "Parameter not found."

----------------------------------------------------------------------------
(* C13 *)

\* a step of the run was taken
Step == pc' # pc \/ idx' # idx \/ event' # event \/ exit' # exit

\* the part of C13 that holds whether or not a deleter fails: the unmanaged
\* inventory is gathered once every gathered stack has been deleted, no
\* stack or ECR repository is deleted afterwards, a confirmed (or
\* no_confirm) type with names enters its loop at the first name, each
\* iteration passes the name at idx to the deleter of the type and moves to
\* the next name, and S3 buckets come before SSM parameters before log
\* groups.
UnmanagedPass ==
    /\ CallStep("gather_unmanaged_resources") =>
          deleteOrder = resources.cloudformation_stacks
    /\ "gather_unmanaged_resources" \in called =>
          /\ deleteOrder' = deleteOrder
          /\ Step => event'.fn \notin {"delete_cloudformation_stack",
                                       "delete_ecr_repository"}
    /\ ( /\ pc = "unmanaged"
         /\ Step
         /\ UnmanagedNames(rtype) # <<>>
         /\ no_confirm \/ event' = Prompt(rtype, TRUE) ) =>
              pc' = "unmanaged_loop" /\ idx' = 1 /\ rtype' = rtype
    /\ (pc = "unmanaged_loop" /\ Step) =>
          /\ rtype \in {"s3_buckets", "ssm_params", "log_groups"}
          /\ idx \in 1..Len(UnmanagedNames(rtype))
          /\ event'.kind = "call"
          /\ event'.fn = DeleterName(rtype)
          /\ event'.name = UnmanagedNames(rtype)[idx]
          /\ raised' = "none" /\ idx < Len(UnmanagedNames(rtype)) =>
                pc' = pc /\ rtype' = rtype /\ idx' = idx + 1
          /\ raised' = "none" /\ idx = Len(UnmanagedNames(rtype)) =>
                pc' \in {"unmanaged", "return"}
          /\ raised' # "none" => pc' = "raised"
          /\ rtype = "s3_buckets" =>
                called \cap {"delete_ssm_param", "delete_log_group"} = {}
          /\ rtype = "ssm_params" => "delete_log_group" \notin called

\* C13 as stated: every gathered name of a confirmed type is passed to the
\* deleter, that is, the loop over the names of a type is only left after
\* its last name.
C13_Original ==
    [][ /\ UnmanagedPass
        /\ (pc = "unmanaged_loop" /\ pc' # pc) =>
              idx = Len(UnmanagedNames(rtype))
      ]_vars

\* C13 (amended): as above, and the loop over the names of a type is left
\* before its last name only by a deleter that raised, which ends the run.
C13_UnmanagedPassInOrder ==
    [][ /\ UnmanagedPass
        /\ (pc = "unmanaged_loop" /\ pc' # pc) =>
              idx = Len(UnmanagedNames(rtype)) \/ pc' = "raised"
      ]_vars

\* all three deleters ran, the last log group of two was the last name
\* passed, and cleanup_env returned
C13_Witness ==
    /\ {"delete_s3_bucket", "delete_ssm_param", "delete_log_group"}
          \subseteq called
    /\ deleteOrder # <<>>
    /\ Len(unmanaged_resources.log_groups) = 2
    /\ event.fn = "delete_log_group"
    /\ event.name = unmanaged_resources.log_groups[2]
    /\ pc = "return"
    /\ exit = "ok"

----------------------------------------------------------------------------
(* C14 *)

\* C14: delete_s3_bucket first deletes all object versions of the bucket; a
\* bucket delete call is only issued after the object-version delete has
\* returned successfully, and when the object-version delete fails no bucket
\* delete call is issued and a CLI error is raised.
C14_EmptiedBeforeDeleted ==
    event.fn = "delete_s3_bucket" =>
        /\ event.calls # <<>>
        /\ event.calls[1].api = "object_versions.delete"
        /\ \A i \in 1..Len(event.calls) :
              event.calls[i].api = "bucket.delete" =>
                  \E j \in 1..(i - 1) :
                      event.calls[j] = Call("object_versions.delete", Ok)
        /\ event.calls[1].result # Ok =>
              /\ \A i \in 1..Len(event.calls) :
                    event.calls[i].api # "bucket.delete"
              /\ raised = raise_for_click

\* the object-version delete of a gathered bucket failed, and the command
\* ended in the CLI error
C14_Witness ==
    /\ event.fn = "delete_s3_bucket"
    /\ event.name \in Range(unmanaged_resources.s3_buckets)
    /\ event.calls = <<Call("object_versions.delete", AccessDenied)>>
    /\ raised = raise_for_click
    /\ exit = "ClickException"

----------------------------------------------------------------------------
(* C15 *)

\* the functions that empty, update or delete a resource
Destructive == ManagedOps \cup Deleters

\* the resource type a destructive function works on
ResourceTypeOf(f) ==
    CASE f \in {"empty_s3_buckets", "delete_s3_bucket"} -> "s3_buckets"
      [] f \in {"empty_ecr_repositories", "delete_ecr_repository"} ->
            "ecr_repositories"
      [] f = "update_lambda_vpc_config" -> "vpc_lambdas"
      [] f = "remove_ddb_deletion_protection" -> "ddb_tables"
      [] f = "delete_cloudformation_stack" -> "cloudformation_stacks"
      [] f = "delete_ssm_param" -> "ssm_params"
      [] f = "delete_log_group" -> "log_groups"

\* the names gathered for type t in the pass that position p belongs to
GatheredFor(p, t) ==
    IF p = "managed_loop"
    THEN IF "gather_resources" \in called /\ t \in DOMAIN resources
         THEN Range(resources[t]) ELSE {}
    ELSE IF "gather_unmanaged_resources" \in called
            /\ t \in DOMAIN unmanaged_resources
         THEN Range(unmanaged_resources[t]) ELSE {}

\* C15: a destructive call is only made inside the loop of its resource type
\* and targets a name gathered for that type earlier in the run; the loop of
\* a type is only entered from that type's confirmed prompt or with
\* no_confirm; anything but the initial prompt only happens after the
\* initial prompt was confirmed; and after a declined initial prompt no call
\* is made and cleanup_env returns normally.
C15_OnlyGatheredAndConfirmed ==
    [][ /\ (\E f \in Destructive : CallStep(f)) =>
              /\ pc \in {"managed_loop", "unmanaged_loop"}
              /\ event'.rtype = ResourceTypeOf(event'.fn)
              /\ event'.rtype = rtype
              /\ event'.name \in GatheredFor(pc, rtype)
              /\ event'.calls # <<>>
        /\ \A p \in {"managed", "unmanaged"} :
              LET loop == IF p = "managed" THEN "managed_loop"
                          ELSE "unmanaged_loop" IN
              /\ (pc' = loop /\ pc # loop) =>
                    /\ pc = p
                    /\ rtype' = rtype
                    /\ no_confirm \/ event' = Prompt(rtype, TRUE)
              /\ (pc = loop /\ pc' = loop) => rtype' = rtype
        /\ pc = "start" => called = {} /\ event = NoEvent
        /\ (pc = "start" /\ Step) =>
              /\ event'.kind = "prompt"
              /\ event'.rtype = "proceed"
              /\ called' = {}
              /\ pc' = IF event'.answer THEN "gather" ELSE "return"
        /\ (pc # "start" /\ Step) => pc' # "gather"
        /\ (event'.kind = "call" /\ (pc' # pc \/ idx' # idx)) =>
              pc \notin {"start", "return"}
        /\ event = Prompt("proceed", FALSE) =>
              /\ pc = "return"
              /\ called = {}
              /\ raised = "none"
              /\ event' = event
              /\ called' = called
              /\ raised' = raised
              /\ Step => exit' = "ok"
      ]_vars

\* without no_confirm, after the initial prompt and the prompts of the
\* types were confirmed, a gathered SSM parameter is deleted
C15_Witness ==
    /\ ~no_confirm
    /\ {"empty_s3_buckets", "delete_cloudformation_stack"} \subseteq called
    /\ event.kind = "call"
    /\ event.fn = "delete_ssm_param"
    /\ event.calls # <<>>
    /\ event.name \in Range(unmanaged_resources.ssm_params)

----------------------------------------------------------------------------
(* Specification of the --prefix-list option and the gatherers it feeds *)

MaxValueLen == 3

\* the characters of a --prefix-list value
PrefixChars == {"a", "b", ","}

\* the values of --prefix-list; <<>> is the empty value and the absent option
PrefixListValues == SeqsUpTo(PrefixChars, MaxValueLen)

\* Python: s.split(sep) for a one-character sep
RECURSIVE split(_, _)
split(s, sep) ==
    IF \A i \in 1..Len(s) : s[i] # sep
    THEN <<s>>
    ELSE LET i == CHOOSE k \in 1..Len(s) :
                      s[k] = sep /\ \A j \in 1..(k - 1) : s[j] # sep
         IN  <<SubSeq(s, 1, i - 1)>> \o split(SubSeq(s, i + 1, Len(s)), sep)

\* callback of --prefix-list: value.split(",") if value else None.  None is
\* written <<>>: split never returns an empty list.
prefix_list_callback(value) ==
    IF value # <<>> THEN split(value, ",") ELSE <<>>

\* the gatherers that filter a listing of plain names
CliGatherers ==
    {"gather_s3_buckets", "gather_ecr_repositories", "gather_ddb_tables",
     "gather_log_groups"}

\* what gatherer f returns for substrings subs
GatherNames(f, subs) ==
    CASE f = "gather_s3_buckets" -> gather_s3_buckets(subs, world.s3)
      [] f = "gather_ecr_repositories" ->
            gather_ecr_repositories(subs, world.ecr)
      [] f = "gather_ddb_tables" -> gather_ddb_tables(subs, world.dynamodb)
      [] f = "gather_log_groups" -> gather_log_groups(subs, world.logs)

InitCli ==
    /\ \E l \in Listings(PlainNames) :
          world = [EmptyWorld EXCEPT !.s3 = l,
                                     !.dynamodb = Paginate(l, MaxPageSize),
                                     !.ecr = Paginate(l, MaxPageSize),
                                     !.logs = Paginate(l, MaxPageSize)]
    /\ substrings = <<>>
    /\ fn = ""
    /\ ret = <<>>
    /\ RunIdle

\* click evaluates the option and calls cleanup_env_cli(ctx, no_confirm,
\* prefix_list), which hands prefix_list to cleanup_env as env_list
ParsePrefixList ==
    /\ fn = ""
    /\ \E value \in PrefixListValues :
          /\ substrings' = prefix_list_callback(value)
          /\ event' = [NoEvent EXCEPT !.kind = "option",
                                      !.fn = "--prefix-list",
                                      !.name = value]
    /\ fn' = "cleanup_env_cli"
    /\ UNCHANGED <<world, no_confirm, ret, pc, resources, unmanaged_resources,
                   rtype, idx, raised, exit, called, deleteOrder>>

\* a gatherer is called with substrings; iterating over None raises
\* TypeError at the first listed name
CliGather ==
    /\ fn = "cleanup_env_cli"
    /\ \E f \in CliGatherers :
          /\ fn' = f
          /\ IF substrings = <<>>
             THEN /\ ret' = <<>>
                  /\ raised' = IF world.s3 = <<>> THEN "none" ELSE "TypeError"
             ELSE /\ ret' = GatherNames(f, substrings)
                  /\ raised' = "none"
    /\ UNCHANGED <<world, substrings, no_confirm, pc, resources,
                   unmanaged_resources, rtype, idx, event, exit, called,
                   deleteOrder>>

NextCli ==
    \/ ParsePrefixList
    \/ CliGather

SpecCli == InitCli /\ [][NextCli]_vars

----------------------------------------------------------------------------
(* C16 *)

\* the non-empty prefixes typed in a --prefix-list value: its maximal
\* comma-free parts
TypedPrefixes(value) ==
    { SubSeq(value, i, j) : i \in 1..Len(value), j \in 1..Len(value) } \cap
    { t \in SeqsUpTo(PrefixChars \ {","}, Len(value)) :
        /\ t # <<>>
        /\ \E i \in 1..Len(value) :
              LET j == i + Len(t) - 1 IN
              /\ j <= Len(value)
              /\ SubSeq(value, i, j) = t
              /\ i = 1 \/ value[i - 1] = ","
              /\ j = Len(value) \/ value[j + 1] = "," }

\* C16: no substring handed to the gatherers is the empty string, whatever
\* commas the --prefix-list value has, and every name a gatherer selects
\* contains one of the non-empty prefixes of the value.
C16_NoEmptyToken ==
    /\ fn # "" => \A i \in 1..Len(substrings) : substrings[i] # <<>>
    /\ fn \in CliGatherers =>
          \A i \in 1..Len(ret) :
              \E t \in TypedPrefixes(event.name) : In(t, ret[i])

====
